---- MODULE Spec2Model ----
(***************************************************************************)
(* DonorCRM: the Decision History Recorder (apps/journals) and the Pledge  *)
(* Lifecycle Tracker (apps/pledges, apps/donations) as state machines.     *)
(*                                                                         *)
(* Money is kept in cents (DecimalField, decimal_places=2); a date is a    *)
(* record [y, m, d]; None is the string "None".                            *)
(***************************************************************************)
EXTENDS Integers, Sequences, FiniteSets, TLC

VARIABLES
    decisions,   \* committed rows of journal_decisions, row id = index
    history,     \* committed rows of journal_decision_history, in insert order
    pc,          \* per request: position in its handler
    instance,    \* per request: the in-memory Decision returned by get_object()
    data,        \* per request: validated_data of the request
    txHistory,   \* per request: history rows inserted but not yet committed
    txDecision,  \* per request: decision rows written but not yet committed
    created,     \* per membership: create requests answered 201
    rejected,    \* per membership: create requests answered "already exists"
    aborted,     \* requests that ended in a rollback
    started,     \* requests started so far
    nChanged,    \* per decision id: committed updates that changed a tracked field
    today,       \* timezone.now().date()
    elapsed,     \* days passed since the initial state
    pledges,     \* stored rows of the pledges table, by pledge id
    donations,   \* stored rows of the donations table, in insert order
    contact,     \* the stored giving statistics of the contact
    events,      \* number of stored Event rows, by event type
    eventLog,    \* the stored status-change events, in insert order, with their metadata
    response,    \* the answer of the last pledge transition request
    ops,         \* handler runs so far
    request,     \* the last handler run: its kind and the pledge it named
    sweep,       \* check_late_pledges in progress: its position and its local lists
    obj,         \* an in-memory Pledge object held by a caller
    before,      \* obj as it was before the last method call
    ret,         \* the value returned by the last calculate_next_expected_date() on obj
    called,      \* the last method called on obj
    grace,       \* the grace_days argument of the last check_late_status() on obj
    dec,         \* an in-memory Decision object held by a caller
    meq,         \* the value its monthly_equivalent property returned, once read
    inflight     \* per worker: a donation request between its validation and its save

dvars == <<decisions, history, pc, instance, data, txHistory, txDecision,
           created, rejected, aborted, started, nChanged>>

pvars == <<today, elapsed, pledges, donations, contact, events, eventLog, response, ops,
           request>>

uvars == <<obj, ret, called, grace, before>>

cvars == <<sweep>>

mvars == <<dec, meq>>

fvars == <<inflight>>

vars == <<dvars, pvars, uvars, cvars, mvars, fvars>>

None == "None"

----------------------------------------------------------------------------
(* Bounds *)

MaxRequests == 2          \* requests started in one behaviour

Reqs == {"r1", "r2"}      \* requests that can be in flight together
Members == {"jc1", "jc2"} \* journal memberships (JournalContact rows)

MaxOps == 3               \* pledge and donation handler runs in one behaviour
MaxDays == 3              \* days the clock advances in one behaviour

InputAmounts == {10000, 20000}            \* 100.00, 200.00
InputCadences == {"monthly", "quarterly"}
InputStatuses == {"pending", "active"}

PledgeIds == {"p1"}
Workers == {"w1", "w2"}                   \* donation requests that can be in flight together
DonationAmounts == {10000, 2500, -2500}   \* 100.00, 25.00, -25.00 (no minimum is validated)
\* start dates of new pledges and dates of backdated donations
StartDates == {[y |-> 2024, m |-> 1, d |-> 31], [y |-> 2023, m |-> 12, d |-> 31]}
BackDates == {[y |-> 2024, m |-> 1, d |-> 15]}
\* the first day of the clock
FirstDay == [y |-> 2024, m |-> 3, d |-> 9]

\* in-memory pledge objects: the clock, base dates, next expected dates, graces
UnitToday == [y |-> 2024, m |-> 3, d |-> 11]
UnitBaseDates ==
    {[y |-> 2024, m |-> 1, d |-> 31], [y |-> 2023, m |-> 1, d |-> 31],
     [y |-> 2024, m |-> 1, d |-> 15], [y |-> 2023, m |-> 12, d |-> 31],
     [y |-> 2023, m |-> 8, d |-> 31], [y |-> 2024, m |-> 2, d |-> 29]}
UnitExpectedDates ==
    {[y |-> 2024, m |-> 2, d |-> 20], [y |-> 2024, m |-> 2, d |-> 25],
     [y |-> 2024, m |-> 2, d |-> 29], [y |-> 2024, m |-> 3, d |-> 1],
     [y |-> 2024, m |-> 3, d |-> 6], [y |-> 2024, m |-> 3, d |-> 11],
     [y |-> 2024, m |-> 3, d |-> 26]}
GraceChoices == {0, 5, 10}

----------------------------------------------------------------------------
(* Decision model: apps/journals/models.py *)

DecisionCadence == {"one_time", "monthly", "quarterly", "annual"}
DecisionStatus == {"pending", "active", "paused", "declined"}

DefaultCadence == "monthly"
DefaultStatus == "pending"

\* The tracked fields, in the order DecisionSerializer.update visits them.
TrackedFields == <<"amount", "cadence", "status">>
Tracked == {TrackedFields[i] : i \in 1..Len(TrackedFields)}

\* The user of a request (request.user); the views require authentication.
UserOf(r) == IF r = "r1" THEN "owner" ELSE "admin"

DigitStr(n) ==
    CASE n = 0 -> "0" [] n = 1 -> "1" [] n = 2 -> "2" [] n = 3 -> "3"
      [] n = 4 -> "4" [] n = 5 -> "5" [] n = 6 -> "6" [] n = 7 -> "7"
      [] n = 8 -> "8" [] n = 9 -> "9"

RECURSIVE NatStr(_)
NatStr(n) == IF n < 10 THEN DigitStr(n) ELSE NatStr(n \div 10) \o DigitStr(n % 10)

\* str(Decimal) of a non-negative amount with two decimal places.
DecimalStr(cents) ==
    NatStr(cents \div 100) \o "." \o DigitStr((cents % 100) \div 10) \o DigitStr(cents % 10)

\* The value stored in changed_fields for the old value of a field.
JsonValue(field, value) == IF field = "amount" THEN DecimalStr(value) ELSE value

\* Faulty variant: records the proposed value instead of the stored one.
ChangedFieldsNewValue(inst, vdata) ==
    [f \in {g \in Tracked \cap DOMAIN vdata : inst[g] # vdata[g]} |-> JsonValue(f, vdata[f])]

\* Faulty variant: compares by identity: every field of the request counts as changed.
ChangedFieldsIdentity(inst, vdata) ==
    [f \in Tracked \cap DOMAIN vdata |-> JsonValue(f, inst[f])]

\* The loop of DecisionSerializer.update building changed_fields.
ChangedFields(inst, vdata) ==
    [f \in {g \in Tracked \cap DOMAIN vdata : inst[g] # vdata[g]} |-> JsonValue(f, inst[f])]

\* for field, value in validated_data.items(): setattr(instance, field, value)
ApplyData(inst, vdata) ==
    [f \in DOMAIN inst |-> IF f \in DOMAIN vdata THEN vdata[f] ELSE inst[f]]

\* Faulty variant: rewrites the decision's latest history row instead of adding one.
UpsertHistory(h, row) ==
    IF \E i \in 1..Len(h) : h[i].decision = row.decision
    THEN LET k == CHOOSE i \in 1..Len(h) :
                    /\ h[i].decision = row.decision
                    /\ \A j \in 1..Len(h) : h[j].decision = row.decision => j <= i
         IN [h EXCEPT ![k] = row]
    ELSE Append(h, row)

\* DecisionHistory.objects.create(...)
InsertHistory(h, row) == Append(h, row)

\* Faulty variant: has no uniqueness constraint on journal_contact.
NoUniqueConstraint(rows, jc) == FALSE

\* UniqueConstraint(fields=['journal_contact']): would inserting jc violate it?
UniqueViolation(rows, jc) == \E i \in 1..Len(rows) : rows[i].journal_contact = jc

\* Faulty variant: runs the statements of update() in autocommit mode.
NoAtomicBlock == FALSE

\* with transaction.atomic(): the statements of the block commit together.
AtomicBlock == TRUE

\* validated_data of an update request: any subset of the tracked fields.
UpdateData ==
    { [f \in S |-> CASE f = "amount" -> v[1] [] f = "cadence" -> v[2] [] f = "status" -> v[3]] :
        S \in SUBSET Tracked, v \in InputAmounts \X InputCadences \X InputStatuses }

\* validated_data of a create request; cadence and status may be left to the defaults.
CreateData ==
    { [journal_contact |-> jc, amount |-> a, cadence |-> c, status |-> s] :
        jc \in Members, a \in InputAmounts,
        c \in {DefaultCadence} \cup InputCadences, s \in {DefaultStatus} \cup InputStatuses }

HistoryOf(h, d) == SelectSeq(h, LAMBDA row : row.decision = d)

----------------------------------------------------------------------------
(* decimal.Decimal: a coefficient, as its digits from the most significant,   *)
(* and an exponent; arithmetic in the default context (28 significant digits, *)
(* ROUND_HALF_EVEN).                                                          *)

DecimalPrec == 28

RECURSIVE NatDigits(_)
NatDigits(n) == IF n < 10 THEN <<n>> ELSE Append(NatDigits(n \div 10), n % 10)

RECURSIVE DigitsToNat(_)
DigitsToNat(ds) ==
    IF ds = <<>> THEN 0 ELSE DigitsToNat(SubSeq(ds, 1, Len(ds) - 1)) * 10 + ds[Len(ds)]

RECURSIVE StripZeros(_)
StripZeros(ds) == IF Len(ds) > 1 /\ ds[1] = 0 THEN StripZeros(Tail(ds)) ELSE ds

\* The digits of ds * k + carry, for a small natural k.
RECURSIVE MulDigits(_, _, _)
MulDigits(ds, k, carry) ==
    IF ds = <<>> THEN (IF carry = 0 THEN <<>> ELSE NatDigits(carry))
    ELSE LET v == ds[Len(ds)] * k + carry
         IN Append(MulDigits(SubSeq(ds, 1, Len(ds) - 1), k, v \div 10), v % 10)

\* The digits of ds + 1.
RECURSIVE IncrDigits(_)
IncrDigits(ds) ==
    IF ds = <<>> THEN <<1>>
    ELSE IF ds[Len(ds)] < 9 THEN [ds EXCEPT ![Len(ds)] = @ + 1]
    ELSE Append(IncrDigits(SubSeq(ds, 1, Len(ds) - 1)), 0)

\* ROUND_HALF_EVEN: the first n digits of ds, rounded by the digits dropped.
RoundDigits(ds, n) ==
    IF n < 0 THEN <<0>>
    ELSE LET kept == SubSeq(ds, 1, n)
             rest == SubSeq(ds, n + 1, Len(ds))
             tie == rest[1] = 5 /\ \A i \in 2..Len(rest) : rest[i] = 0
             odd == n > 0 /\ kept[n] % 2 = 1
         IN IF rest = <<>> THEN kept
            ELSE IF rest[1] > 5 \/ (rest[1] = 5 /\ ~tie) \/ (tie /\ odd) THEN IncrDigits(kept)
            ELSE IF kept = <<>> THEN <<0>> ELSE kept

\* The context's rounding of a result to DecimalPrec significant digits.
ContextRound(x) ==
    IF Len(x.coeff) <= DecimalPrec THEN x
    ELSE LET r == RoundDigits(x.coeff, DecimalPrec)
             e == x.exp + (Len(x.coeff) - DecimalPrec)
         IN IF Len(r) > DecimalPrec
            THEN [coeff |-> SubSeq(r, 1, DecimalPrec), exp |-> e + 1]
            ELSE [coeff |-> r, exp |-> e]

\* The first n digits of rem / d after the decimal point, and the remainder left.
RECURSIVE DivDigits(_, _, _)
DivDigits(rem, d, n) ==
    IF n = 0 THEN <<>> ELSE <<(rem * 10) \div d>> \o DivDigits((rem * 10) % d, d, n - 1)

RECURSIVE DivRemainder(_, _, _)
DivRemainder(rem, d, n) == IF n = 0 THEN rem ELSE DivRemainder((rem * 10) % d, d, n - 1)

RECURSIVE LeadingZeros(_, _)
LeadingZeros(rem, d) == IF rem * 10 >= d THEN 0 ELSE 1 + LeadingZeros(rem * 10, d)

\* Decimal('1') / Decimal(str(d)) for d > 1: the quotient to DecimalPrec
\* significant digits, rounded half-even by the remainder.
DecimalOneOver(d) ==
    LET n == DecimalPrec + LeadingZeros(1, d)
        digits == StripZeros(DivDigits(1, d, n))
        rem == DivRemainder(1, d, n)
        up == 2 * rem > d \/ (2 * rem = d /\ digits[Len(digits)] % 2 = 1)
    IN [coeff |-> IF up THEN IncrDigits(digits) ELSE digits, exp |-> 0 - n]

\* amount * multiplier, for an amount of cents hundredths.
DecimalTimes(cents, multiplier) ==
    ContextRound([coeff |-> StripZeros(MulDigits(multiplier.coeff, cents, 0)),
                  exp |-> multiplier.exp - 2])

\* round(x, 2) for a Decimal x >= 0, as a number of hundredths.
RoundToCents(x) ==
    IF x.exp >= -2 THEN DigitsToNat(x.coeff) * (IF x.exp = -2 THEN 1 ELSE 100)
    ELSE DigitsToNat(RoundDigits(x.coeff, Len(x.coeff) - (0 - 2 - x.exp)))

\* The multipliers table of Decision.monthly_equivalent.
Multipliers(cadence) ==
    CASE cadence = "one_time" -> [coeff |-> <<0>>, exp |-> 0]
      [] cadence = "monthly" -> [coeff |-> <<1>>, exp |-> 0]
      [] cadence = "quarterly" -> DecimalOneOver(3)
      [] cadence = "annual" -> DecimalOneOver(12)

\* Decision.monthly_equivalent, in hundredths.
MonthlyEquivalent(d) == RoundToCents(DecimalTimes(d.amount, Multipliers(d.cadence)))

----------------------------------------------------------------------------
(* Dates: datetime.date, timedelta and dateutil's relativedelta *)

Date(y, m, d) == [y |-> y, m |-> m, d |-> d]

\* A null date field.
NoDate == [y |-> 0, m |-> 0, d |-> 0]

IsLeap(y) == (y % 4 = 0 /\ y % 100 # 0) \/ y % 400 = 0

\* calendar.monthrange(year, month)[1]
DaysInMonth(y, m) ==
    CASE m \in {1, 3, 5, 7, 8, 10, 12} -> 31
      [] m \in {4, 6, 9, 11} -> 30
      [] m = 2 -> IF IsLeap(y) THEN 29 ELSE 28

\* a < b on dates
DateLess(a, b) ==
    \/ a.y < b.y
    \/ a.y = b.y /\ a.m < b.m
    \/ a.y = b.y /\ a.m = b.m /\ a.d < b.d

\* date + timedelta(days=1)
NextDay(a) ==
    IF a.d < DaysInMonth(a.y, a.m) THEN Date(a.y, a.m, a.d + 1)
    ELSE IF a.m < 12 THEN Date(a.y, a.m + 1, 1)
    ELSE Date(a.y + 1, 1, 1)

RECURSIVE AddDays(_, _)
\* date + timedelta(days=n), n >= 0
AddDays(a, n) == IF n = 0 THEN a ELSE AddDays(NextDay(a), n - 1)

RECURSIVE DaysBeforeMonth(_, _)
DaysBeforeMonth(y, m) == IF m = 1 THEN 0 ELSE DaysBeforeMonth(y, m - 1) + DaysInMonth(y, m - 1)

\* date.toordinal()
Ordinal(a) ==
    LET py == a.y - 1 IN
    py * 365 + (py \div 4) - (py \div 100) + (py \div 400) + DaysBeforeMonth(a.y, a.m) + a.d

\* (a - b).days
DaysBetween(a, b) == Ordinal(a) - Ordinal(b)

\* Faulty variant: adds the months without clamping the day to the target month.
AddRelativeDeltaNoClamp(dt, delta) ==
    LET y0 == dt.y + delta.years
        m0 == dt.m + delta.months
        y1 == IF m0 > 12 THEN y0 + 1 ELSE y0
        m1 == IF m0 > 12 THEN m0 - 12 ELSE m0
    IN IF dt.d <= DaysInMonth(y1, m1) THEN Date(y1, m1, dt.d)
       ELSE Date(IF m1 = 12 THEN y1 + 1 ELSE y1, IF m1 = 12 THEN 1 ELSE m1 + 1,
                 dt.d - DaysInMonth(y1, m1))

\* dt + relativedelta(years=.., months=..): the month is advanced, the year
\* carried, and the day clamped to the length of the target month.
AddRelativeDelta(dt, delta) ==
    LET y0 == dt.y + delta.years
        m0 == dt.m + delta.months
        y1 == IF m0 > 12 THEN y0 + 1 ELSE y0
        m1 == IF m0 > 12 THEN m0 - 12 ELSE m0
        d1 == IF dt.d < DaysInMonth(y1, m1) THEN dt.d ELSE DaysInMonth(y1, m1)
    IN Date(y1, m1, d1)

----------------------------------------------------------------------------
(* Pledge model: apps/pledges/models.py *)

PledgeFrequency == {"monthly", "quarterly", "semi_annual", "annual"}
PledgeStatus == {"active", "paused", "completed", "cancelled"}

DefaultGraceDays == 10

\* The deltas table of calculate_next_expected_date.
Deltas(frequency) ==
    CASE frequency = "monthly" -> [years |-> 0, months |-> 1]
      [] frequency = "quarterly" -> [years |-> 0, months |-> 3]
      [] frequency = "semi_annual" -> [years |-> 0, months |-> 6]
      [] frequency = "annual" -> [years |-> 1, months |-> 0]
      [] OTHER -> [years |-> 0, months |-> 1]

\* Faulty variant: computes a date whatever the status is.
CalculateIgnoringStatus(p) ==
    AddRelativeDelta(IF p.last_fulfilled_date # NoDate THEN p.last_fulfilled_date
                     ELSE p.start_date, Deltas(p.frequency))

\* Pledge.calculate_next_expected_date
CalculateNextExpectedDate(p) ==
    IF p.status # "active" THEN NoDate
    ELSE LET base_date == IF p.last_fulfilled_date # NoDate THEN p.last_fulfilled_date
                          ELSE p.start_date
         IN AddRelativeDelta(base_date, Deltas(p.frequency))

\* Faulty variant: counts the last day of the grace period as late.
CheckLateStatusInclusive(p, now, grace_days) ==
    IF p.next_expected_date = NoDate \/ p.status # "active"
    THEN [p EXCEPT !.is_late = FALSE, !.days_late = 0]
    ELSE IF ~DateLess(now, AddDays(p.next_expected_date, grace_days))
         THEN [p EXCEPT !.is_late = TRUE, !.days_late = DaysBetween(now, p.next_expected_date)]
         ELSE [p EXCEPT !.is_late = FALSE, !.days_late = 0]

\* Faulty variant: also drops the next expected date of a pledge that is not active.
CheckLateStatusDroppingDate(p, now, grace_days) ==
    IF p.next_expected_date = NoDate \/ p.status # "active"
    THEN [p EXCEPT !.is_late = FALSE, !.days_late = 0, !.next_expected_date = NoDate]
    ELSE LET expected_with_grace == AddDays(p.next_expected_date, grace_days) IN
         IF DateLess(expected_with_grace, now)
         THEN [p EXCEPT !.is_late = TRUE, !.days_late = DaysBetween(now, p.next_expected_date)]
         ELSE [p EXCEPT !.is_late = FALSE, !.days_late = 0]

\* Pledge.check_late_status, with today = now
CheckLateStatus(p, now, grace_days) ==
    IF p.next_expected_date = NoDate \/ p.status # "active"
    THEN [p EXCEPT !.is_late = FALSE, !.days_late = 0]
    ELSE LET expected_with_grace == AddDays(p.next_expected_date, grace_days) IN
         IF DateLess(expected_with_grace, now)
         THEN [p EXCEPT !.is_late = TRUE, !.days_late = DaysBetween(now, p.next_expected_date)]
         ELSE [p EXCEPT !.is_late = FALSE, !.days_late = 0]

\* Faulty variant: recomputes the next expected date before storing the donation's date.
RecordFulfillmentStaleBase(p, donation) ==
    [p EXCEPT !.next_expected_date = CalculateNextExpectedDate(p),
              !.last_fulfilled_date = donation.date,
              !.total_received = @ + donation.amount,
              !.is_late = FALSE, !.days_late = 0]

\* Pledge.record_fulfillment, up to its save()
RecordFulfillment(p, donation) ==
    LET p1 == [p EXCEPT !.last_fulfilled_date = donation.date]
        p2 == [p1 EXCEPT !.total_received = @ + donation.amount]
        p3 == [p2 EXCEPT !.next_expected_date = CalculateNextExpectedDate(p2)]
    IN [p3 EXCEPT !.is_late = FALSE, !.days_late = 0]

\* Faulty variant: changes the status only.
PauseKeepingLate(p) == [p EXCEPT !.status = "paused"]

\* Pledge.pause, up to its save()
Pause(p) == [p EXCEPT !.status = "paused", !.is_late = FALSE, !.days_late = 0]

\* Faulty variant: computes the next expected date before the status is active.
ResumeBeforeActivating(p) ==
    [p EXCEPT !.status = "active", !.next_expected_date = CalculateNextExpectedDate(p)]

\* Pledge.resume, up to its save()
Resume(p) ==
    LET p1 == [p EXCEPT !.status = "active"]
    IN [p1 EXCEPT !.next_expected_date = CalculateNextExpectedDate(p1)]

\* Faulty variant: closes the pledge as completed.
CancelAsCompleted(p, now) ==
    [p EXCEPT !.status = "completed", !.end_date = now, !.is_late = FALSE, !.days_late = 0]

\* Pledge.cancel, up to its save()
Cancel(p, now) ==
    [p EXCEPT !.status = "cancelled", !.end_date = now, !.is_late = FALSE, !.days_late = 0]

\* Faulty variant: stores the new row as given.
SaveAddingAsGiven(p) == p

\* Pledge.save of a new row (self._state.adding)
SaveAdding(p) ==
    IF p.status = "active"
    THEN [p EXCEPT !.next_expected_date = CalculateNextExpectedDate(p)]
    ELSE p

\* A Pledge as its constructor leaves it, with the fields given by the caller.
NewPledge(frequency, status, start_date) ==
    [frequency |-> frequency, status |-> status, start_date |-> start_date,
     end_date |-> NoDate, last_fulfilled_date |-> NoDate, next_expected_date |-> NoDate,
     total_received |-> 0, is_late |-> FALSE, days_late |-> 0]

\* handle_pledge_status_change for a save of an existing pledge: the event type
\* created when the status stored before the save differs from the saved one.
StatusEventType(new_status) ==
    IF new_status = "cancelled" THEN "pledge_cancelled" ELSE "pledge_updated"

EventsAfterSave(ev, old_status, new_status) ==
    IF old_status # new_status
    THEN [ev EXCEPT ![StatusEventType(new_status)] = @ + 1]
    ELSE ev

\* Faulty variant: an event for every save of an existing pledge.
StatusChangeEventsOnEverySave(old_status, saved) ==
    <<[event_type |-> StatusEventType(saved.status),
       old_status |-> old_status, new_status |-> saved.status]>>

\* handle_pledge_status_change and _create_status_change_event for a save of an
\* existing pledge: the events created, with their type and metadata.
\* old_status is the status track_pledge_status_change read from the store.
StatusChangeEvents(old_status, saved) ==
    IF old_status # saved.status
    THEN <<[event_type |-> StatusEventType(saved.status),
            old_status |-> old_status, new_status |-> saved.status]>>
    ELSE <<>>

EventTypes == {"pledge_created", "pledge_updated", "pledge_cancelled", "pledge_late",
               "donation_received"}

\* getattr(pledge, '_original_days_late', pledge.days_late): the attribute is
\* never set, so the default, the value after the check, is taken.
OriginalDaysLate(checked) == checked.days_late

\* The condition of check_late_pledges for writing a pledge back.
NeedsUpdate(stored, checked) ==
    checked.is_late # stored.is_late \/ checked.days_late # OriginalDaysLate(checked)

\* Faulty variant: no pledge counts as newly late.
NewlyLateNever(stored, checked) == FALSE

\* The condition of check_late_pledges for a late event: pledge.is_late and not was_late.
NewlyLate(stored, checked) == checked.is_late /\ ~stored.is_late

\* Pledge.objects.filter(status=ACTIVE)
ActivePledges(rows) == {p \in DOMAIN rows : rows[p].status = "active"}

\* The loop of check_late_pledges: each active pledge after check_late_status().
CheckedPledges(rows, now) ==
    [p \in ActivePledges(rows) |-> CheckLateStatus(rows[p], now, DefaultGraceDays)]

\* pledges_to_update, by pledge id: the checked objects that are written back.
PledgesToUpdate(rows, now) ==
    LET checked == CheckedPledges(rows, now)
        ids == {p \in ActivePledges(rows) : NeedsUpdate(rows[p], checked[p])}
    IN [p \in ids |-> checked[p]]

\* newly_late_pledges: it is filled inside the branch that fills pledges_to_update.
NewlyLatePledges(rows, now) ==
    {p \in DOMAIN PledgesToUpdate(rows, now) :
        NewlyLate(rows[p], PledgesToUpdate(rows, now)[p])}

\* Pledge.objects.bulk_update(pledges_to_update, fields=['is_late', 'days_late'])
BulkUpdate(rows, to_update) ==
    [p \in DOMAIN rows |->
        IF p \in DOMAIN to_update
        THEN [rows[p] EXCEPT !.is_late = to_update[p].is_late,
                             !.days_late = to_update[p].days_late]
        ELSE rows[p]]

\* Faulty variant: a cancel request is never refused.
CanCancelAlways(p) == TRUE

\* Faulty variant: a resume request is refused for an active pledge only.
CanResumeUnlessActive(p) == p.status # "active"

\* The status conditions of PledgePauseView, PledgeResumeView and PledgeCancelView.
CanPause(p) == p.status = "active"

CanResume(p) == p.status = "paused"

CanCancel(p) == p.status \notin {"cancelled", "completed"}

RECURSIVE SumAmounts(_)
SumAmounts(rows) == IF rows = <<>> THEN 0 ELSE rows[1].amount + SumAmounts(Tail(rows))

RECURSIVE MinDate(_)
MinDate(rows) ==
    IF Len(rows) = 1 THEN rows[1].date
    ELSE LET rest == MinDate(Tail(rows))
         IN IF DateLess(rows[1].date, rest) THEN rows[1].date ELSE rest

RECURSIVE MaxDate(_)
MaxDate(rows) ==
    IF Len(rows) = 1 THEN rows[1].date
    ELSE LET rest == MaxDate(Tail(rows))
         IN IF DateLess(rest, rows[1].date) THEN rows[1].date ELSE rest

\* Contact.update_giving_stats over the contact's donations (last_gift_amount
\* is not modelled).
UpdateGivingStats(c, rows) ==
    LET count == Len(rows) IN
    [c EXCEPT !.total_given = SumAmounts(rows),
              !.gift_count = count,
              !.first_gift_date = IF count = 0 THEN NoDate ELSE MinDate(rows),
              !.last_gift_date = IF count = 0 THEN NoDate ELSE MaxDate(rows),
              !.status = IF count > 0 /\ @ = "prospect" THEN "donor" ELSE @]

----------------------------------------------------------------------------
(* Initial state: the fixture of the decision tests. Membership jc1 has its  *)
(* decision (100.00, monthly, pending), jc2 has none; no request in flight. *)

InitDecision ==
    /\ decisions = <<[journal_contact |-> "jc1", amount |-> 10000,
                      cadence |-> "monthly", status |-> "pending"]>>
    /\ history = <<>>
    /\ pc = [r \in Reqs |-> "idle"]
    /\ instance = [r \in Reqs |-> None]
    /\ data = [r \in Reqs |-> None]
    /\ txHistory = [r \in Reqs |-> <<>>]
    /\ txDecision = [r \in Reqs |-> <<>>]
    /\ created = [jc \in Members |-> IF jc = "jc1" THEN 1 ELSE 0]
    /\ rejected = [jc \in Members |-> 0]
    /\ aborted = 0
    /\ started = 0
    /\ nChanged = <<0>>

\* No pledge, no donation; the contact is a prospect without gifts.
InitPledge ==
    /\ today = FirstDay
    /\ elapsed = 0
    /\ pledges = <<>>
    /\ donations = <<>>
    /\ contact = [total_given |-> 0, gift_count |-> 0, first_gift_date |-> NoDate,
                  last_gift_date |-> NoDate, status |-> "prospect",
                  needs_thank_you |-> FALSE]
    /\ events = [t \in EventTypes |-> 0]
    /\ eventLog = <<>>
    /\ response = "none"
    /\ ops = 0
    /\ request = [action |-> "none", pledge |-> None]

\* No in-memory pledge object is held.
InitNoObject ==
    /\ obj = <<>>
    /\ ret = NoDate
    /\ called = "none"
    /\ grace = 0
    /\ before = <<>>

\* check_late_pledges is not running.
InitSweep == sweep = [pc |-> "idle", pledges_to_update |-> <<>>, newly_late_pledges |-> {}]

\* No in-memory decision object is held.
InitNoDecisionObject ==
    /\ dec = <<>>
    /\ meq = <<>>

\* No donation request is in flight.
InitWorkers == inflight = [w \in Workers |-> <<>>]

Init ==
    /\ InitDecision /\ InitPledge /\ InitNoObject /\ InitSweep
    /\ InitNoDecisionObject /\ InitWorkers

\* In-memory pledge objects as the unit tests build them: any status and
\* frequency, with the date and lateness fields set directly.
UnitObjects ==
    { [NewPledge(f, s, sd) EXCEPT !.last_fulfilled_date = lf, !.next_expected_date = ne,
                                  !.is_late = l[1], !.days_late = l[2]] :
        f \in PledgeFrequency, s \in PledgeStatus, sd \in UnitBaseDates,
        lf \in UnitBaseDates \cup {NoDate}, ne \in UnitExpectedDates \cup {NoDate},
        l \in {<<FALSE, 0>>, <<TRUE, 10>>} }

InitUnit ==
    /\ InitDecision
    /\ InitPledge
    /\ InitSweep
    /\ InitNoDecisionObject
    /\ InitWorkers
    /\ obj \in UnitObjects
    /\ before = obj
    /\ ret = NoDate
    /\ called = "none"
    /\ grace = 0

----------------------------------------------------------------------------
(* POST /decisions/: DecisionListCreateView.create -> DecisionSerializer.create *)

\* serializer.is_valid(): the request is validated; nothing is looked up for uniqueness.
CreateValidate(r) ==
    /\ UNCHANGED <<pvars, uvars, cvars, mvars, fvars>>
    /\ pc[r] = "idle"
    /\ started < MaxRequests
    /\ \E vd \in CreateData : data' = [data EXCEPT ![r] = vd]
    /\ pc' = [pc EXCEPT ![r] = "validated"]
    /\ started' = started + 1
    /\ UNCHANGED <<decisions, history, instance, txHistory, txDecision,
                   created, rejected, aborted, nChanged>>

\* Decision.objects.create(**validated_data) inside transaction.atomic(); an
\* IntegrityError naming the unique constraint becomes the "already exists" error.
CreateInsert(r) ==
    /\ UNCHANGED <<pvars, uvars, cvars, mvars, fvars>>
    /\ pc[r] = "validated"
    /\ LET jc == data[r].journal_contact IN
         IF UniqueViolation(decisions, jc)
         THEN /\ rejected' = [rejected EXCEPT ![jc] = @ + 1]
              /\ UNCHANGED <<decisions, created, nChanged>>
         ELSE /\ decisions' = Append(decisions, data[r])
              /\ nChanged' = Append(nChanged, 0)
              /\ created' = [created EXCEPT ![jc] = @ + 1]
              /\ UNCHANGED rejected
    /\ pc' = [pc EXCEPT ![r] = "idle"]
    /\ data' = [data EXCEPT ![r] = None]
    /\ UNCHANGED <<history, instance, txHistory, txDecision, aborted, started>>

----------------------------------------------------------------------------
(* PATCH/PUT /decisions/<pk>/: DecisionDetailView -> DecisionSerializer.update *)

\* get_object(): the decision is read from the committed table, without a lock.
\* (The request body is drawn where update() first reads it.)
GetObject(r) ==
    /\ UNCHANGED <<pvars, uvars, cvars, mvars, fvars>>
    /\ pc[r] = "idle"
    /\ started < MaxRequests
    /\ \E pk \in 1..Len(decisions) :
         instance' = [instance EXCEPT ![r] = [id |-> pk] @@ decisions[pk]]
    /\ pc' = [pc EXCEPT ![r] = "loaded"]
    /\ started' = started + 1
    /\ UNCHANGED <<decisions, history, data, txHistory, txDecision,
                   created, rejected, aborted, nChanged>>

\* Lines 303-325: the diff against the in-memory instance and the history insert.
UpdateInsertHistory(r) ==
    /\ UNCHANGED <<pvars, uvars, cvars, mvars, fvars>>
    /\ pc[r] = "loaded"
    /\ \E vd \in UpdateData :
         LET changed == ChangedFields(instance[r], vd)
             row == [decision |-> instance[r].id, changed_fields |-> changed,
                     changed_by |-> UserOf(r)]
         IN /\ data' = [data EXCEPT ![r] = vd]
            /\ IF DOMAIN changed = {}
               THEN UNCHANGED <<history, txHistory>>
               ELSE IF AtomicBlock
                    THEN /\ txHistory' = [txHistory EXCEPT ![r] = <<row>>]
                         /\ UNCHANGED history
                    ELSE /\ history' = InsertHistory(history, row)
                         /\ UNCHANGED txHistory
    /\ pc' = [pc EXCEPT ![r] = "inserted"]
    /\ UNCHANGED <<decisions, instance, txDecision,
                   created, rejected, aborted, started, nChanged>>

\* The stored row differs from `row` in a tracked field.
TrackedDiffer(old, row) == \E f \in Tracked : old[f] # row[f]

\* The committed tables after writing decision row `row` at id pk.
WriteDecision(rows, pk, row) ==
    [rows EXCEPT ![pk] = [f \in DOMAIN rows[pk] |-> row[f]]]

CountChange(n, rows, pk, row) ==
    IF TrackedDiffer(rows[pk], row) THEN [n EXCEPT ![pk] = @ + 1] ELSE n

\* Lines 327-330: setattr for every validated field, then instance.save(), a
\* full-row UPDATE; it waits while another transaction holds the row.
UpdateSave(r) ==
    /\ UNCHANGED <<pvars, uvars, cvars, mvars, fvars>>
    /\ pc[r] = "inserted"
    /\ \A q \in Reqs \ {r} :
         ~(pc[q] = "saved" /\ instance[q].id = instance[r].id)
    /\ LET inst == ApplyData(instance[r], data[r]) IN
         /\ instance' = [instance EXCEPT ![r] = inst]
         /\ IF AtomicBlock
            THEN /\ txDecision' = [txDecision EXCEPT ![r] = <<inst>>]
                 /\ UNCHANGED <<decisions, nChanged>>
            ELSE /\ decisions' = WriteDecision(decisions, inst.id, inst)
                 /\ nChanged' = CountChange(nChanged, decisions, inst.id, inst)
                 /\ UNCHANGED txDecision
    /\ pc' = [pc EXCEPT ![r] = "saved"]
    /\ UNCHANGED <<history, data, txHistory, created, rejected, aborted, started>>

\* Leaving the atomic block: the buffered insert and update become visible together.
UpdateCommit(r) ==
    /\ UNCHANGED <<pvars, uvars, cvars, mvars, fvars>>
    /\ pc[r] = "saved"
    /\ history' = IF txHistory[r] # <<>>
                  THEN InsertHistory(history, txHistory[r][1])
                  ELSE history
    /\ IF txDecision[r] # <<>>
       THEN LET row == txDecision[r][1] IN
            /\ decisions' = WriteDecision(decisions, row.id, row)
            /\ nChanged' = CountChange(nChanged, decisions, row.id, row)
       ELSE UNCHANGED <<decisions, nChanged>>
    /\ pc' = [pc EXCEPT ![r] = "idle"]
    /\ instance' = [instance EXCEPT ![r] = None]
    /\ data' = [data EXCEPT ![r] = None]
    /\ txHistory' = [txHistory EXCEPT ![r] = <<>>]
    /\ txDecision' = [txDecision EXCEPT ![r] = <<>>]
    /\ UNCHANGED <<created, rejected, aborted, started>>

\* A statement of the block raises (the history insert when pc = "loaded", the
\* UPDATE when pc = "inserted", the commit when pc = "saved"): the block is
\* rolled back and the request answers with an error.
UpdateFail(r) ==
    /\ UNCHANGED <<pvars, uvars, cvars, mvars, fvars>>
    /\ pc[r] \in {"loaded", "inserted", "saved"}
    /\ pc' = [pc EXCEPT ![r] = "idle"]
    /\ instance' = [instance EXCEPT ![r] = None]
    /\ data' = [data EXCEPT ![r] = None]
    /\ txHistory' = [txHistory EXCEPT ![r] = <<>>]
    /\ txDecision' = [txDecision EXCEPT ![r] = <<>>]
    /\ aborted' = aborted + 1
    /\ UNCHANGED <<decisions, history, created, rejected, started, nChanged>>

DecisionStep(r) ==
    \/ CreateValidate(r)
    \/ CreateInsert(r)
    \/ GetObject(r)
    \/ UpdateInsertHistory(r)
    \/ UpdateSave(r)
    \/ UpdateCommit(r)
    \/ UpdateFail(r)

\* Requests handled by concurrent workers.
NextDecision == \E r \in Reqs : DecisionStep(r)

SpecDecision == Init /\ [][NextDecision]_vars

\* Requests handled one after another: a request starts only when no other is in flight.
NextDecisionSerial ==
    \E r \in Reqs : (\A q \in Reqs \ {r} : pc[q] = "idle") /\ DecisionStep(r)

SpecDecisionSerial == Init /\ [][NextDecisionSerial]_vars

----------------------------------------------------------------------------
(* Pledge and donation handlers, each run to completion *)

\* POST /pledges/: Pledge.save of a new row, then the post_save signal.
PledgeCreate(p) ==
    /\ ops < MaxOps
    /\ p \notin DOMAIN pledges
    /\ \E f \in PledgeFrequency, s \in PledgeStatus, sd \in StartDates :
         pledges' = pledges @@ (p :> SaveAdding(NewPledge(f, s, sd)))
    /\ events' = [events EXCEPT !["pledge_created"] = @ + 1]
    /\ ops' = ops + 1
    /\ request' = [action |-> "create", pledge |-> p]
    /\ UNCHANGED <<today, elapsed, donations, contact, eventLog, response>>
    /\ UNCHANGED <<dvars, uvars, cvars, mvars, fvars>>

\* Donation.objects.create(...) and update_contact_stats_on_save.
DonationCreate ==
    /\ ops < MaxOps
    /\ \E amount \in DonationAmounts, date \in {today} \cup BackDates,
          link \in DOMAIN pledges \cup {None} :
         LET donation == [amount |-> amount, date |-> date, pledge |-> link] IN
         /\ donations' = Append(donations, donation)
         /\ contact' = [UpdateGivingStats(contact, donations')
                          EXCEPT !.needs_thank_you = TRUE]
         /\ request' = [action |-> "donation", pledge |-> link]
         /\ IF link # None
            THEN LET saved == RecordFulfillment(pledges[link], donation) IN
                 /\ pledges' = [pledges EXCEPT ![link] = saved]
                 /\ events' = [EventsAfterSave(events, pledges[link].status, saved.status)
                                 EXCEPT !["donation_received"] = @ + 1]
                 /\ eventLog' = eventLog \o StatusChangeEvents(pledges[link].status, saved)
            ELSE /\ UNCHANGED <<pledges, eventLog>>
                 /\ events' = [events EXCEPT !["donation_received"] = @ + 1]
    /\ ops' = ops + 1
    /\ UNCHANGED <<today, elapsed, response>>
    /\ UNCHANGED <<dvars, uvars, cvars, mvars, fvars>>

\* PledgePauseView.post
PledgePause(p) ==
    /\ ops < MaxOps
    /\ IF p \notin DOMAIN pledges
       THEN /\ response' = "not_found"
            /\ UNCHANGED <<pledges, events, eventLog>>
       ELSE IF ~CanPause(pledges[p])
       THEN /\ response' = "invalid"
            /\ UNCHANGED <<pledges, events, eventLog>>
       ELSE LET saved == Pause(pledges[p]) IN
            /\ pledges' = [pledges EXCEPT ![p] = saved]
            /\ events' = EventsAfterSave(events, pledges[p].status, saved.status)
            /\ eventLog' = eventLog \o StatusChangeEvents(pledges[p].status, saved)
            /\ response' = "ok"
    /\ ops' = ops + 1
    /\ request' = [action |-> "pause", pledge |-> p]
    /\ UNCHANGED <<today, elapsed, donations, contact>>
    /\ UNCHANGED <<dvars, uvars, cvars, mvars, fvars>>

\* PledgeResumeView.post
PledgeResume(p) ==
    /\ ops < MaxOps
    /\ IF p \notin DOMAIN pledges
       THEN /\ response' = "not_found"
            /\ UNCHANGED <<pledges, events, eventLog>>
       ELSE IF ~CanResume(pledges[p])
       THEN /\ response' = "invalid"
            /\ UNCHANGED <<pledges, events, eventLog>>
       ELSE LET saved == Resume(pledges[p]) IN
            /\ pledges' = [pledges EXCEPT ![p] = saved]
            /\ events' = EventsAfterSave(events, pledges[p].status, saved.status)
            /\ eventLog' = eventLog \o StatusChangeEvents(pledges[p].status, saved)
            /\ response' = "ok"
    /\ ops' = ops + 1
    /\ request' = [action |-> "resume", pledge |-> p]
    /\ UNCHANGED <<today, elapsed, donations, contact>>
    /\ UNCHANGED <<dvars, uvars, cvars, mvars, fvars>>

\* PledgeCancelView.post
PledgeCancel(p) ==
    /\ ops < MaxOps
    /\ IF p \notin DOMAIN pledges
       THEN /\ response' = "not_found"
            /\ UNCHANGED <<pledges, events, eventLog>>
       ELSE IF ~CanCancel(pledges[p])
       THEN /\ response' = "invalid"
            /\ UNCHANGED <<pledges, events, eventLog>>
       ELSE LET saved == Cancel(pledges[p], today) IN
            /\ pledges' = [pledges EXCEPT ![p] = saved]
            /\ events' = EventsAfterSave(events, pledges[p].status, saved.status)
            /\ eventLog' = eventLog \o StatusChangeEvents(pledges[p].status, saved)
            /\ response' = "ok"
    /\ ops' = ops + 1
    /\ request' = [action |-> "cancel", pledge |-> p]
    /\ UNCHANGED <<today, elapsed, donations, contact>>
    /\ UNCHANGED <<dvars, uvars, cvars, mvars, fvars>>

\* The daily task check_late_pledges, run without interruption.
CheckLatePledges ==
    /\ ops < MaxOps
    /\ sweep.pc = "idle"
    /\ pledges' = BulkUpdate(pledges, PledgesToUpdate(pledges, today))
    /\ events' = [events EXCEPT !["pledge_late"] =
                                   @ + Cardinality(NewlyLatePledges(pledges, today))]
    /\ ops' = ops + 1
    /\ request' = [action |-> "sweep", pledge |-> None]
    /\ UNCHANGED <<today, elapsed, donations, contact, eventLog, response>>
    /\ UNCHANGED <<dvars, uvars, cvars, mvars, fvars>>

\* check_late_pledges, first part: the query and the loop that checks each
\* active pledge and fills pledges_to_update and newly_late_pledges.
SweepCheck ==
    /\ ops < MaxOps
    /\ sweep.pc = "idle"
    /\ sweep' = [pc |-> "checked",
                 pledges_to_update |-> PledgesToUpdate(pledges, today),
                 newly_late_pledges |-> NewlyLatePledges(pledges, today)]
    /\ ops' = ops + 1
    /\ UNCHANGED <<today, elapsed, pledges, donations, contact, events, eventLog, response,
                   request>>
    /\ UNCHANGED <<dvars, uvars, mvars, fvars>>

\* check_late_pledges, second part: bulk_update of the listed pledges, then one
\* late event for each newly late pledge.
SweepBulkUpdate ==
    /\ sweep.pc = "checked"
    /\ pledges' = BulkUpdate(pledges, sweep.pledges_to_update)
    /\ events' = [events EXCEPT !["pledge_late"] =
                                   @ + Cardinality(sweep.newly_late_pledges)]
    /\ sweep' = [pc |-> "idle", pledges_to_update |-> <<>>, newly_late_pledges |-> {}]
    /\ request' = [action |-> "sweep", pledge |-> None]
    /\ UNCHANGED <<today, elapsed, donations, contact, eventLog, response, ops>>
    /\ UNCHANGED <<dvars, uvars, mvars, fvars>>

\* A day passes.
Tick ==
    /\ elapsed < MaxDays
    /\ today' = NextDay(today)
    /\ elapsed' = elapsed + 1
    /\ UNCHANGED <<pledges, donations, contact, events, eventLog, response, ops, request>>
    /\ UNCHANGED <<dvars, uvars, cvars, mvars, fvars>>

NextPledge ==
    \/ \E p \in PledgeIds : PledgeCreate(p)
    \/ DonationCreate
    \/ \E p \in PledgeIds : PledgePause(p)
    \/ \E p \in PledgeIds : PledgeResume(p)
    \/ \E p \in PledgeIds : PledgeCancel(p)
    \/ CheckLatePledges
    \/ Tick

SpecPledge == Init /\ [][NextPledge]_vars

\* The same handlers, with the daily task in two steps between which the other
\* handlers can run: the task holds no lock and no transaction.
NextPledgeRace ==
    \/ \E p \in PledgeIds : PledgeCreate(p)
    \/ DonationCreate
    \/ \E p \in PledgeIds : PledgePause(p)
    \/ \E p \in PledgeIds : PledgeResume(p)
    \/ \E p \in PledgeIds : PledgeCancel(p)
    \/ SweepCheck
    \/ SweepBulkUpdate
    \/ Tick

SpecPledgeRace == Init /\ [][NextPledgeRace]_vars

----------------------------------------------------------------------------
(* Donations of the contact: creation, modification and deletion *)

\* PATCH /donations/<id>/: DonationSerializer.update saves the row; the
\* post_save handler returns at once because the donation is not new.
DonationUpdate ==
    /\ ops < MaxOps
    /\ \E i \in 1..Len(donations), amount \in DonationAmounts :
         donations' = [donations EXCEPT ![i].amount = amount]
    /\ ops' = ops + 1
    /\ request' = [action |-> "donation_update", pledge |-> None]
    /\ UNCHANGED <<today, elapsed, pledges, contact, events, eventLog, response>>
    /\ UNCHANGED <<dvars, uvars, cvars, mvars, fvars>>

\* DELETE /donations/<id>/: the row is deleted, then update_contact_stats_on_delete.
DonationDelete ==
    /\ ops < MaxOps
    /\ \E i \in 1..Len(donations) :
         /\ donations' = SubSeq(donations, 1, i - 1) \o SubSeq(donations, i + 1, Len(donations))
         /\ contact' = UpdateGivingStats(contact, donations')
    /\ ops' = ops + 1
    /\ request' = [action |-> "donation_delete", pledge |-> None]
    /\ UNCHANGED <<today, elapsed, pledges, events, eventLog, response>>
    /\ UNCHANGED <<dvars, uvars, cvars, mvars, fvars>>

NextDonation ==
    \/ DonationCreate
    \/ DonationUpdate
    \/ DonationDelete

SpecDonation == Init /\ [][NextDonation]_vars

\* POST /donations/ up to serializer.is_valid(): the pledge field loads the
\* Pledge row, and that object stays on the donation as instance.pledge.
DonationValidate(w) ==
    /\ ops < MaxOps
    /\ inflight[w] = <<>>
    /\ \E amount \in DonationAmounts, date \in {today} \cup BackDates,
          link \in DOMAIN pledges \cup {None} :
         inflight' = [inflight EXCEPT ![w] =
                        <<[donation |-> [amount |-> amount, date |-> date, pledge |-> link],
                           pledge |-> IF link = None THEN <<>> ELSE <<pledges[link]>>]>>]
    /\ ops' = ops + 1
    /\ UNCHANGED <<today, elapsed, pledges, donations, contact, events, eventLog,
                   response, request>>
    /\ UNCHANGED <<dvars, uvars, cvars, mvars>>

\* The rest of the request: serializer.save() inserts the donation and
\* update_contact_stats_on_save runs record_fulfillment on the object loaded at
\* validation, whose save() writes every column of the pledge row.
DonationSave(w) ==
    /\ inflight[w] # <<>>
    /\ LET donation == inflight[w][1].donation
           link == donation.pledge
       IN /\ donations' = Append(donations, donation)
          /\ contact' = [UpdateGivingStats(contact, donations')
                           EXCEPT !.needs_thank_you = TRUE]
          /\ request' = [action |-> "donation", pledge |-> link]
          /\ IF link # None
             THEN LET saved == RecordFulfillment(inflight[w][1].pledge[1], donation) IN
                  /\ pledges' = [pledges EXCEPT ![link] = saved]
                  /\ events' = [EventsAfterSave(events, pledges[link].status, saved.status)
                                  EXCEPT !["donation_received"] = @ + 1]
                  /\ eventLog' = eventLog \o StatusChangeEvents(pledges[link].status, saved)
             ELSE /\ UNCHANGED <<pledges, eventLog>>
                  /\ events' = [events EXCEPT !["donation_received"] = @ + 1]
    /\ inflight' = [inflight EXCEPT ![w] = <<>>]
    /\ UNCHANGED <<today, elapsed, response, ops>>
    /\ UNCHANGED <<dvars, uvars, cvars, mvars>>

\* Donation requests served by several workers, next to the transition
\* endpoints: nothing locks the pledge row between the load and the save.
NextFulfillmentRace ==
    \/ \E p \in PledgeIds : PledgeCreate(p)
    \/ \E w \in Workers : DonationValidate(w)
    \/ \E w \in Workers : DonationSave(w)
    \/ \E p \in PledgeIds : PledgePause(p)
    \/ \E p \in PledgeIds : PledgeResume(p)
    \/ \E p \in PledgeIds : PledgeCancel(p)

SpecFulfillmentRace == Init /\ [][NextFulfillmentRace]_vars

----------------------------------------------------------------------------
(* Method calls on an in-memory Pledge object *)

\* obj.calculate_next_expected_date()
CallCalculate ==
    /\ ret' = CalculateNextExpectedDate(obj)
    /\ called' = "calculate"
    /\ before' = obj
    /\ UNCHANGED <<obj, grace>>
    /\ UNCHANGED <<dvars, pvars, cvars, mvars, fvars>>

\* obj.check_late_status(grace_days=g), with the clock at UnitToday
CallCheckLateStatus(g) ==
    /\ obj' = CheckLateStatus(obj, UnitToday, g)
    /\ called' = "check"
    /\ grace' = g
    /\ before' = obj
    /\ UNCHANGED ret
    /\ UNCHANGED <<dvars, pvars, cvars, mvars, fvars>>

\* obj.pause()
CallPause ==
    /\ obj' = Pause(obj)
    /\ called' = "pause"
    /\ before' = obj
    /\ UNCHANGED <<ret, grace>>
    /\ UNCHANGED <<dvars, pvars, cvars, mvars, fvars>>

\* obj.resume()
CallResume ==
    /\ obj' = Resume(obj)
    /\ called' = "resume"
    /\ before' = obj
    /\ UNCHANGED <<ret, grace>>
    /\ UNCHANGED <<dvars, pvars, cvars, mvars, fvars>>

\* obj.cancel(), with the clock at UnitToday
CallCancel ==
    /\ obj' = Cancel(obj, UnitToday)
    /\ called' = "cancel"
    /\ before' = obj
    /\ UNCHANGED <<ret, grace>>
    /\ UNCHANGED <<dvars, pvars, cvars, mvars, fvars>>

NextUnit ==
    \/ CallCalculate
    \/ \E g \in GraceChoices : CallCheckLateStatus(g)
    \/ CallPause
    \/ CallResume
    \/ CallCancel

SpecUnit == InitUnit /\ [][NextUnit]_vars

----------------------------------------------------------------------------
(* The monthly_equivalent property of an in-memory Decision *)

\* Amounts of the decisions read: 0.01 .. 0.30 and the amounts of the tests.
MonthlyAmounts == (1..30) \cup {150, 10000, 30000, 50000, 120000}

MonthlyObjects == [amount : MonthlyAmounts, cadence : DecisionCadence]

InitMonthly ==
    /\ InitDecision /\ InitPledge /\ InitNoObject /\ InitSweep /\ InitWorkers
    /\ dec \in MonthlyObjects
    /\ meq = <<>>

\* dec.monthly_equivalent
ReadMonthlyEquivalent ==
    /\ meq = <<>>
    /\ meq' = <<MonthlyEquivalent(dec)>>
    /\ UNCHANGED dec
    /\ UNCHANGED <<dvars, pvars, uvars, cvars, fvars>>

NextMonthly == ReadMonthlyEquivalent

SpecMonthly == InitMonthly /\ [][NextMonthly]_vars

----------------------------------------------------------------------------
(* Properties of the Decision History Recorder *)

\* The history rows of decision d that a step adds.
NewRows(d) ==
    SubSeq(HistoryOf(history', d), Len(HistoryOf(history, d)) + 1, Len(HistoryOf(history', d)))

\* The text expected in changed_fields for a stored value.
OldValueText(f, v) ==
    IF f = "amount" THEN (CASE v = 10000 -> "100.00" [] v = 20000 -> "200.00") ELSE v

\* The step commits the update of request r.
Commits(r) == pc[r] = "saved" /\ pc'[r] = "idle" /\ aborted' = aborted

\* C1: with requests handled one after another, an update that changes the stored
\* amount, cadence or status adds exactly one history row for that decision; the
\* row's changed_fields has exactly the fields whose stored value changed, each
\* mapped to the value stored before the update (the amount as its decimal
\* text), never to the new value; an update that changes nothing adds no row.
C1_UpdateRecordsOldValues ==
    [][ \A d \in 1..Len(decisions) :
          LET F == {f \in Tracked : decisions'[d][f] # decisions[d][f]}
              new == NewRows(d)
          IN IF F = {}
             THEN new = <<>>
             ELSE /\ Len(new) = 1
                  /\ DOMAIN new[1].changed_fields = F
                  /\ \A f \in F :
                       /\ new[1].changed_fields[f] = OldValueText(f, decisions[d][f])
                       /\ new[1].changed_fields[f] # OldValueText(f, decisions'[d][f]) ]_vars

\* C1 witness: a committed history row that records two or more changed fields.
C1_Witness ==
    \E i \in 1..Len(history) : Cardinality(DOMAIN history[i].changed_fields) >= 2

\* C2: the history insert and the decision update of one request become visible
\* in the same step or not at all: a step that adds a history row is the commit
\* of a request and also stores that request's values; a step that changes a
\* stored decision is a commit that also adds the request's pending history row;
\* a request that ends in a rollback leaves both tables as they were.
C2_AtomicUpdate ==
    [][ /\ aborted' # aborted => (decisions' = decisions /\ history' = history)
        /\ Len(history') > Len(history) =>
             \E r \in Reqs :
                /\ Commits(r)
                /\ txHistory[r] # <<>>
                /\ history' = history \o txHistory[r]
                /\ \A f \in DOMAIN data[r] : decisions'[instance[r].id][f] = data[r][f]
        /\ (\E d \in 1..Len(decisions) : decisions'[d] # decisions[d]) =>
             \E r \in Reqs :
                /\ Commits(r)
                /\ history' = history \o txHistory[r] ]_vars

\* C2 witness: a request holds its history row and its decision update, both
\* uncommitted, while neither is visible in the committed tables.
C2_Witness ==
    \E r \in Reqs :
       /\ pc[r] = "saved"
       /\ txHistory[r] # <<>>
       /\ txDecision[r] # <<>>
       /\ history = <<>>
       /\ decisions[1].amount = 10000

\* C3: with overlapping requests, every step seen by a reader changes a stored
\* tracked field of a decision exactly when the step adds a history row of that
\* decision recording that field.
C3_ReaderConsistent ==
    [][ \A d \in 1..Len(decisions) : \A f \in Tracked :
          (decisions'[d][f] # decisions[d][f])
            <=> (\E k \in 1..Len(NewRows(d)) : f \in DOMAIN NewRows(d)[k].changed_fields) ]_vars

\* The number of stored decisions of membership jc.
DecisionCount(jc) ==
    Cardinality({i \in 1..Len(decisions) : decisions[i].journal_contact = jc})

\* C4: under any interleaving of create requests, a membership has at most one
\* decision; the number of successful creates equals the number of its
\* decisions; and as soon as any create for it was answered, exactly one
\* succeeded and every other one was answered "already exists".
C4_OneDecisionPerMembership ==
    \A jc \in Members :
       /\ DecisionCount(jc) <= 1
       /\ created[jc] = DecisionCount(jc)
       /\ (created[jc] + rejected[jc] > 0) => (created[jc] = 1 /\ DecisionCount(jc) = 1)

\* C4 witness: two create requests for jc2, which had no decision: one succeeded,
\* the other was answered "already exists".
C4_Witness == created["jc2"] = 1 /\ rejected["jc2"] = 1

\* C5: with requests handled one after another, an update whose values all
\* equal the stored ones commits without adding a history row and without
\* changing the decision; and every committed update leaves the stored fields
\* equal to the request's values (so repeating it is such a no-op).
C5_NoOpUpdate ==
    [][ \A r \in Reqs : Commits(r) =>
          LET d == instance[r].id IN
          /\ (\A f \in DOMAIN data[r] : data[r][f] = decisions[d][f])
                => (history' = history /\ decisions' = decisions)
          /\ \A f \in DOMAIN data[r] : decisions'[d][f] = data[r][f] ]_vars

\* C5 witness: after an update that added a history row, a second update naming
\* all three fields with the stored values is about to commit, with no pending row.
C5_Witness ==
    \E r \in Reqs :
       /\ pc[r] = "saved"
       /\ Len(history) = 1
       /\ DOMAIN data[r] = Tracked
       /\ \A f \in Tracked : data[r][f] = decisions[instance[r].id][f]
       /\ txHistory[r] = <<>>

\* C6: with requests handled one after another, every history row belongs to a
\* stored decision, and the number of history rows of each decision equals the
\* number of committed updates that changed one of its tracked fields (0 right
\* after its creation).
C6_HistoryCount ==
    /\ \A i \in 1..Len(history) : history[i].decision \in 1..Len(decisions)
    /\ \A d \in 1..Len(decisions) : Len(HistoryOf(history, d)) = nChanged[d]

\* C6 witness: two updates of decision 1 were committed, one of which changed a
\* tracked field.
C6_Witness ==
    /\ started = 2 /\ aborted = 0
    /\ \A r \in Reqs : pc[r] = "idle"
    /\ Len(decisions) = 1
    /\ \A jc \in Members : rejected[jc] = 0
    /\ nChanged[1] = 1

\* C7: every step keeps the history rows already stored, unchanged and in place;
\* rows are only appended.
C7_HistoryAppendOnly ==
    [][ /\ Len(history') >= Len(history)
        /\ \A i \in 1..Len(history) : history'[i] = history[i] ]_vars

\* C7 witness: a second history row of decision 1 was stored after the first.
C7_Witness == Len(HistoryOf(history, 1)) = 2

----------------------------------------------------------------------------
(* Properties of the Pledge Lifecycle Tracker *)

\* Calendar months of one period of a cadence.
MonthsOf(frequency) ==
    CASE frequency = "monthly" -> 1
      [] frequency = "quarterly" -> 3
      [] frequency = "semi_annual" -> 6
      [] frequency = "annual" -> 12

\* r is b advanced by n calendar months, the day clamped to the month's length.
IsPlusMonths(r, b, n) ==
    /\ r.m \in 1..12
    /\ r.y * 12 + (r.m - 1) = b.y * 12 + (b.m - 1) + n
    /\ r.d = (IF b.d <= DaysInMonth(r.y, r.m) THEN b.d ELSE DaysInMonth(r.y, r.m))

\* The step stores a donation linked to pledge p.
DonationStoredFor(p) ==
    /\ Len(donations') = Len(donations) + 1
    /\ donations'[Len(donations')].pledge = p

\* C8: a step that stores a donation linked to an active pledge leaves the
\* pledge with last_fulfilled_date = the donation's date, total_received
\* raised by exactly the donation's amount, next_expected_date = the donation's
\* date plus the cadence's months (day clamped), is_late = FALSE and
\* days_late = 0, whatever the lateness and next_expected_date were before.
C8_FulfillmentRecorded ==
    [][ \A p \in DOMAIN pledges :
          (DonationStoredFor(p) /\ pledges[p].status = "active") =>
             LET dn == donations'[Len(donations')]
                 q == pledges'[p]
             IN /\ q.last_fulfilled_date = dn.date
                /\ q.total_received = pledges[p].total_received + dn.amount
                /\ IsPlusMonths(q.next_expected_date, dn.date, MonthsOf(q.frequency))
                /\ q.is_late = FALSE
                /\ q.days_late = 0
                /\ q.status = "active" ]_vars

\* C8 witness: an active pledge that the sweep had found late was fulfilled by a
\* donation dated 2024-01-15, before its next expected date, and is not late.
C8_Witness ==
    \E p \in DOMAIN pledges :
       /\ pledges[p].status = "active"
       /\ pledges[p].last_fulfilled_date = Date(2024, 1, 15)
       /\ pledges[p].total_received = 2500
       /\ events["pledge_late"] = 1
       /\ pledges[p].is_late = FALSE

\* C9: after check_late_status(grace) on an in-memory pledge: if the pledge is
\* active and has a next_expected_date, it is late exactly when the clock is
\* more than grace days past that date, and then days_late is the number of
\* days from next_expected_date to the clock; on the last day of grace, or
\* earlier, it is not late and days_late = 0; a pledge that is not active or has
\* no next_expected_date is not late and has days_late = 0. (With grace 10 and
\* the clock at 2024-03-11: 02-25 gives 15 days late, 03-01 and 03-06 not late.)
C9_LateStatus ==
    called = "check" =>
       LET ne == obj.next_expected_date IN
       /\ IF obj.status = "active" /\ ne # NoDate
          THEN IF Ordinal(UnitToday) > Ordinal(ne) + grace
               THEN /\ obj.is_late = TRUE
                    /\ obj.days_late > grace
                    /\ obj.days_late = Ordinal(UnitToday) - Ordinal(ne)
                    /\ obj.days_late <= 20 => AddDays(ne, obj.days_late) = UnitToday
               ELSE obj.is_late = FALSE /\ obj.days_late = 0
          ELSE obj.is_late = FALSE /\ obj.days_late = 0
       /\ (obj.status = "active" /\ grace = 10) =>
            /\ ne = Date(2024, 2, 25) => (obj.is_late = TRUE /\ obj.days_late = 15)
            /\ ne = Date(2024, 3, 6) => (obj.is_late = FALSE /\ obj.days_late = 0)
            /\ ne = Date(2024, 3, 1) => (obj.is_late = FALSE /\ obj.days_late = 0)

\* C9 witness: check_late_status(10) on an active pledge whose next expected
\* date is exactly 10 days before the clock: the boundary, not late.
C9_Witness ==
    /\ called = "check"
    /\ grace = 10
    /\ obj.status = "active"
    /\ obj.next_expected_date = Date(2024, 3, 1)
    /\ obj.is_late = FALSE

\* C10: the value calculate_next_expected_date returned for an in-memory pledge
\* is null if the pledge is not active; otherwise it is the base date
\* (last_fulfilled_date if set, else start_date) advanced by 1, 3, 6 or 12
\* calendar months for monthly, quarterly, semi-annual and annual, with the day
\* clamped to the target month (2024-01-31 monthly gives 2024-02-29,
\* 2023-01-31 gives 2023-02-28, 2024-01-15 gives 2024-02-15).
C10_NextExpectedDate ==
    called = "calculate" =>
       IF obj.status # "active"
       THEN ret = NoDate
       ELSE LET base == IF obj.last_fulfilled_date # NoDate
                        THEN obj.last_fulfilled_date ELSE obj.start_date
            IN /\ IsPlusMonths(ret, base, MonthsOf(obj.frequency))
               /\ obj.frequency = "monthly" =>
                    /\ base = Date(2024, 1, 31) => ret = Date(2024, 2, 29)
                    /\ base = Date(2023, 1, 31) => ret = Date(2023, 2, 28)
                    /\ base = Date(2024, 1, 15) => ret = Date(2024, 2, 15)

\* C10 witness: an active monthly pledge last fulfilled on 2024-01-31, with
\* another start date, whose next expected date was computed as 2024-02-29.
C10_Witness ==
    /\ called = "calculate"
    /\ obj.status = "active"
    /\ obj.frequency = "monthly"
    /\ obj.last_fulfilled_date = Date(2024, 1, 31)
    /\ obj.start_date = Date(2023, 12, 31)
    /\ ret = Date(2024, 2, 29)

\* C11: after pause() the pledge has status paused, is_late = FALSE and
\* days_late = 0; after cancel() it has status cancelled, is_late = FALSE,
\* days_late = 0 and end_date = the current date; both whatever the status and
\* the lateness values were before the call.
C11_PauseCancelClearLateness ==
    /\ called = "pause" =>
         (obj.status = "paused" /\ obj.is_late = FALSE /\ obj.days_late = 0)
    /\ called = "cancel" =>
         /\ obj.status = "cancelled" /\ obj.is_late = FALSE /\ obj.days_late = 0
         /\ obj.end_date = UnitToday

\* C11 witness: pause() was called on an active pledge that was late by 15 days.
C11_Witness ==
    /\ called = "pause"
    /\ before.status = "active" /\ before.is_late = TRUE /\ before.days_late = 15
    /\ obj.is_late = FALSE

\* C12: after resume() on a paused pledge the status is active and
\* next_expected_date is the base date (last_fulfilled_date if set, else
\* start_date) advanced by the cadence's months, hence not null, whatever
\* next_expected_date was before.
C12_ResumeRecomputes ==
    (called = "resume" /\ before.status = "paused") =>
       LET base == IF before.last_fulfilled_date # NoDate
                   THEN before.last_fulfilled_date ELSE before.start_date
       IN /\ obj.status = "active"
          /\ obj.next_expected_date # NoDate
          /\ IsPlusMonths(obj.next_expected_date, base, MonthsOf(obj.frequency))

\* C12 witness: resume() on a paused pledge that had no next expected date and
\* was last fulfilled on 2024-01-31: the date is now 2024-02-29.
C12_Witness ==
    /\ called = "resume"
    /\ before.status = "paused"
    /\ before.next_expected_date = NoDate
    /\ before.last_fulfilled_date = Date(2024, 1, 31)
    /\ obj.frequency = "monthly"
    /\ obj.next_expected_date = Date(2024, 2, 29)

\* The step runs the transition request a for pledge p.
TransitionRequested(a, p) ==
    /\ ops' = ops + 1
    /\ request' = [action |-> a, pledge |-> p]

\* C13: a pause request for a pledge that is not active, a resume request for
\* one that is not paused and a cancel request for one that is cancelled or
\* completed are answered "invalid transition"; a request for a pledge that
\* does not exist is answered "not found"; a request answered with an error
\* leaves the pledges and the events as they were; any other is answered ok.
C13_InvalidTransitionRejected ==
    [][ \A p \in PledgeIds : \A a \in {"pause", "resume", "cancel"} :
          TransitionRequested(a, p) =>
             LET refused ==
                   \/ a = "pause" /\ pledges[p].status # "active"
                   \/ a = "resume" /\ pledges[p].status # "paused"
                   \/ a = "cancel" /\ pledges[p].status \in {"cancelled", "completed"}
             IN /\ response' = (IF p \notin DOMAIN pledges THEN "not_found"
                                ELSE IF refused THEN "invalid" ELSE "ok")
                /\ response' # "ok" => (pledges' = pledges /\ events' = events) ]_vars

\* C13 witness: a cancel request for a completed pledge was answered "invalid".
C13_Witness ==
    /\ request = [action |-> "cancel", pledge |-> "p1"]
    /\ response = "invalid"
    /\ "p1" \in DOMAIN pledges
    /\ pledges["p1"].status = "completed"

\* C14: in every reachable state a pledge that is not active has no
\* next_expected_date.
C14_NextExpectedOnlyIfActive ==
    \A p \in DOMAIN pledges :
       pledges[p].status # "active" => pledges[p].next_expected_date = NoDate

\* C15: no step lowers a pledge's total_received, and a step that changes it
\* stores a donation linked to that pledge.
C15_TotalReceivedMonotone ==
    [][ \A p \in DOMAIN pledges :
          /\ pledges'[p].total_received >= pledges[p].total_received
          /\ pledges'[p].total_received # pledges[p].total_received
               => DonationStoredFor(p) ]_vars

\* The step is a run of check_late_pledges.
SweepRuns ==
    /\ ops' = ops + 1
    /\ request' = [action |-> "sweep", pledge |-> None]

\* C16: a run of check_late_pledges adds as many pledge-late events as there
\* are active pledges whose stored is_late it changes from FALSE to TRUE, so
\* none for a pledge that was late before the run; no other step adds one.
C16_OneLateEventPerNewlyLate ==
    [][ LET turned == {p \in DOMAIN pledges :
                         /\ pledges[p].status = "active"
                         /\ ~pledges[p].is_late
                         /\ pledges'[p].is_late}
        IN IF SweepRuns
           THEN events'["pledge_late"] = events["pledge_late"] + Cardinality(turned)
           ELSE /\ events'["pledge_late"] = events["pledge_late"]
                /\ turned = {} ]_vars

\* C16 witness: after the run that found the pledge late, a run on a later day
\* found it late by more days and added no second event.
C16_Witness ==
    /\ request.action = "sweep"
    /\ events["pledge_late"] = 1
    /\ \E p \in DOMAIN pledges :
          /\ pledges[p].status = "active"
          /\ pledges[p].is_late
          /\ pledges[p].days_late < DaysBetween(today, pledges[p].next_expected_date)
    /\ ops = 3

\* C17: after a run of check_late_pledges every active pledge stores the
\* is_late and days_late that check_late_status computes for it on that day
\* (a pledge whose values differ is written, one whose values agree keeps them).
C17_SweepWritesChanges ==
    [][ SweepRuns =>
          \A p \in DOMAIN pledges :
             pledges[p].status = "active" =>
                LET checked == CheckLateStatus(pledges[p], today, DefaultGraceDays)
                IN /\ pledges'[p].is_late = checked.is_late
                   /\ pledges'[p].days_late = checked.days_late ]_vars

\* The pledge's stored next_expected_date is more than the grace period before now.
Overdue(p, now) ==
    /\ p.status = "active"
    /\ p.next_expected_date # NoDate
    /\ DateLess(AddDays(p.next_expected_date, DefaultGraceDays), now)

\* C18: with check_late_pledges interleaved with the other handlers, a pledge
\* is stored late only while its stored next_expected_date is overdue, and a
\* step that adds a pledge-late event leaves each pledge it reports overdue.
C18_SweepSerializable ==
    [][ /\ \A p \in DOMAIN pledges' :
             pledges'[p].is_late => Overdue(pledges'[p], today')
        /\ events'["pledge_late"] > events["pledge_late"] =>
             \A p \in sweep.newly_late_pledges : Overdue(pledges'[p], today') ]_vars

\* C19: a step that stores a donation linked to a paused or cancelled pledge
\* raises the pledge's total_received by the donation's amount, sets
\* last_fulfilled_date to the donation's date and next_expected_date to null,
\* and keeps the status.
C19_FulfillmentOnInactive ==
    [][ \A p \in DOMAIN pledges :
          (DonationStoredFor(p) /\ pledges[p].status \in {"paused", "cancelled"}) =>
             LET dn == donations'[Len(donations')]
                 q == pledges'[p]
             IN /\ q.total_received = pledges[p].total_received + dn.amount
                /\ q.last_fulfilled_date = dn.date
                /\ q.next_expected_date = NoDate
                /\ q.status = pledges[p].status ]_vars

\* C19 witness: a pledge created active and then paused received a donation of
\* 100.00: it is still paused and has no next expected date.
C19_Witness ==
    \E p \in DOMAIN pledges :
       /\ request = [action |-> "donation", pledge |-> p]
       /\ events["pledge_updated"] = 1
       /\ pledges[p].status = "paused"
       /\ pledges[p].total_received = 10000
       /\ pledges[p].last_fulfilled_date # NoDate
       /\ pledges[p].next_expected_date = NoDate

\* C20: no step brings a stored pledge that is not completed to completed.
C20_CompletedUnreachable ==
    [][ \A p \in DOMAIN pledges :
          pledges[p].status # "completed" => pledges'[p].status # "completed" ]_vars

\* C20 witness: a pledge created active was paused and then cancelled.
C20_Witness ==
    \E p \in DOMAIN pledges :
       /\ events["pledge_updated"] = 1
       /\ events["pledge_cancelled"] = 1
       /\ pledges[p].status = "cancelled"
       /\ pledges[p].end_date = today

\* The number of stored status-change events (pledge updated or cancelled).
StatusEventCount(ev) == ev["pledge_updated"] + ev["pledge_cancelled"]

\* C21: a step that creates a pledge adds exactly one pledge-created event and
\* no status-change event; a step that changes the stored status of an existing
\* pledge adds exactly one status-change event, whose metadata holds the status
\* stored before the step and the one stored after it; a step that leaves every
\* stored status unchanged (a fulfillment, a refused request, a sweep) adds no
\* status-change event and no pledge-created event.
C21_StatusEvents ==
    [][ LET made == DOMAIN pledges' \ DOMAIN pledges
            moved == {p \in DOMAIN pledges : pledges'[p].status # pledges[p].status}
            added == SubSeq(eventLog', Len(eventLog) + 1, Len(eventLog'))
        IN /\ Cardinality(made) <= 1 /\ Cardinality(moved) <= 1
           /\ events'["pledge_created"] = events["pledge_created"] + Cardinality(made)
           /\ StatusEventCount(events') = StatusEventCount(events) + Cardinality(moved)
           /\ Len(added) = Cardinality(moved)
           /\ \A p \in moved :
                /\ added[1].old_status = pledges[p].status
                /\ added[1].new_status = pledges'[p].status
                /\ events'[added[1].event_type] = events[added[1].event_type] + 1 ]_vars

\* C21 witness: a pledge was created active, paused and resumed: one created
\* event, then the events active -> paused and paused -> active.
C21_Witness ==
    /\ events["pledge_created"] = 1
    /\ Len(eventLog) = 2
    /\ eventLog[1].old_status = "active" /\ eventLog[1].new_status = "paused"
    /\ eventLog[2].old_status = "paused" /\ eventLog[2].new_status = "active"

\* The exact quotient cents / n rounded half-up to a whole number of hundredths.
HalfUpQuotient(cents, n) == (2 * cents + n) \div (2 * n)

\* C22: the value read from monthly_equivalent is 0 for one-time, the amount
\* for monthly, and the exact quotient amount/3 for quarterly and amount/12 for
\* annual rounded half-up to 2 decimal places (100.00 quarterly gives 33.33,
\* 1200.00 annual gives 100.00, 500.00 one-time gives 0.00).
C22_MonthlyEquivalent ==
    meq # <<>> =>
       /\ meq[1] = (CASE dec.cadence = "one_time" -> 0
                      [] dec.cadence = "monthly" -> dec.amount
                      [] dec.cadence = "quarterly" -> HalfUpQuotient(dec.amount, 3)
                      [] dec.cadence = "annual" -> HalfUpQuotient(dec.amount, 12))
       /\ (dec.amount = 10000 /\ dec.cadence = "quarterly") => meq[1] = 3333
       /\ (dec.amount = 120000 /\ dec.cadence = "annual") => meq[1] = 10000
       /\ (dec.amount = 50000 /\ dec.cadence = "one_time") => meq[1] = 0

\* C23: a pledge stored by a create step has, if its status is active,
\* next_expected_date = its start date advanced by the cadence's months (day
\* clamped), and otherwise no next_expected_date.
C23_CreationNextExpected ==
    [][ \A p \in DOMAIN pledges' \ DOMAIN pledges :
          LET q == pledges'[p] IN
          IF q.status = "active"
          THEN IsPlusMonths(q.next_expected_date, q.start_date, MonthsOf(q.frequency))
          ELSE q.next_expected_date = NoDate ]_vars

\* C23 witness: a quarterly pledge created active with start date 2023-12-31
\* expects its first payment on 2024-03-31.
C23_Witness ==
    /\ request = [action |-> "create", pledge |-> "p1"]
    /\ pledges["p1"].status = "active"
    /\ pledges["p1"].frequency = "quarterly"
    /\ pledges["p1"].start_date = Date(2023, 12, 31)
    /\ pledges["p1"].next_expected_date = Date(2024, 3, 31)

\* The fields of a pledge other than is_late and days_late.
OtherFields == {"frequency", "status", "start_date", "end_date", "last_fulfilled_date",
                "next_expected_date", "total_received"}

\* C24: a call of check_late_status leaves every field of the object other
\* than is_late and days_late as it was, and leaves the stored pledges as they were.
C24_CheckLateStatusFrame ==
    [][ (called' = "check" /\ before' = obj) =>
          /\ \A f \in OtherFields : obj'[f] = obj[f]
          /\ pledges' = pledges ]_vars

\* C24 witness: check_late_status turned a pledge that was not late into a
\* late one; its next expected date and status are the ones it had.
C24_Witness ==
    /\ called = "check"
    /\ before.is_late = FALSE /\ obj.is_late = TRUE
    /\ obj.status = before.status
    /\ obj.next_expected_date = before.next_expected_date

\* C25: in every reachable state the contact's total_given is the sum of the
\* amounts of its stored donations and gift_count is their number.
C25_GivingStats ==
    /\ contact.total_given = SumAmounts(donations)
    /\ contact.gift_count = Len(donations)

\* The tracked fields of decision row after undoing history row h: each recorded
\* field gets its recorded old value, the others keep the value of the row.
Undone(row, h) ==
    [f \in Tracked |-> IF f \in DOMAIN h.changed_fields
                       THEN h.changed_fields[f] ELSE OldValueText(f, row[f])]

\* C26: with overlapping requests, every history row a step adds records, for
\* each of its fields, the value stored just before the step; and undoing the
\* rows a step adds from the decision stored after the step gives the decision
\* stored before it (a step that adds no row leaves the tracked fields alone).
C26_HistoryReplaysStoredStates ==
    [][ \A d \in 1..Len(decisions) :
          LET new == NewRows(d)
              stored == [f \in Tracked |-> OldValueText(f, decisions[d][f])]
          IN /\ Len(new) <= 1
             /\ \A k \in 1..Len(new) : \A f \in DOMAIN new[k].changed_fields :
                  new[k].changed_fields[f] = stored[f]
             /\ stored = (IF new = <<>>
                          THEN [f \in Tracked |-> OldValueText(f, decisions'[d][f])]
                          ELSE Undone(decisions'[d], new[1])) ]_vars

\* The amounts of the stored donations linked to pledge p, added up.
RECURSIVE LinkedAmount(_, _)
LinkedAmount(rows, p) ==
    IF rows = <<>> THEN 0
    ELSE (IF Head(rows).pledge = p THEN Head(rows).amount ELSE 0)
         + LinkedAmount(Tail(rows), p)

\* C27: once no donation request is in flight, the total_received of every
\* pledge is its value at creation, 0, plus the amounts of all the donations
\* stored for it: concurrent fulfillments lose no increment.
C27_NoLostFulfillment ==
    (\A w \in Workers : inflight[w] = <<>>)
        => \A p \in DOMAIN pledges :
             pledges[p].total_received = LinkedAmount(donations, p)

\* C28: while donation requests are in flight, a pledge that is paused or
\* cancelled becomes active only by a resume request: no fulfillment save
\* writes back the status it read before the pause or cancel.
C28_PauseCancelNotUndone ==
    [][ \A p \in DOMAIN pledges :
          (pledges[p].status \in {"paused", "cancelled"} /\ pledges'[p].status = "active")
              => request'.action = "resume" ]_vars

\* C29: in every state reached by creating pledges and running donations
\* (record_fulfillment), the late sweep (check_late_status), pause, resume and
\* cancel one after the other, a pledge is late exactly when its days_late is
\* positive, and a late pledge is active.
C29_LateFlagsConsistent ==
    \A p \in DOMAIN pledges :
       /\ pledges[p].is_late <=> pledges[p].days_late > 0
       /\ pledges[p].is_late => pledges[p].status = "active"

\* C29 witness: a pledge the sweep had found late was paused on the same day
\* and is stored paused, not late, with days_late 0.
C29_Witness ==
    /\ request = [action |-> "pause", pledge |-> "p1"]
    /\ response = "ok"
    /\ events["pledge_late"] = 1
    /\ pledges["p1"].status = "paused"
    /\ ~pledges["p1"].is_late
    /\ pledges["p1"].days_late = 0

\* C30: once a pledge is stored cancelled, every step leaves its status
\* cancelled and its end_date as the cancellation set it, and every pause,
\* resume or cancel request for it is answered "invalid transition".
C30_CancelledAbsorbing ==
    [][ \A p \in DOMAIN pledges :
          pledges[p].status = "cancelled" =>
             /\ pledges'[p].status = "cancelled"
             /\ pledges'[p].end_date = pledges[p].end_date
             /\ \A a \in {"pause", "resume", "cancel"} :
                  TransitionRequested(a, p) => response' = "invalid" ]_vars

\* C30 witness: a resume request made on a day after the cancellation was
\* answered "invalid" and the pledge still has the end_date of the cancellation.
C30_Witness ==
    /\ request = [action |-> "resume", pledge |-> "p1"]
    /\ response = "invalid"
    /\ "p1" \in DOMAIN pledges
    /\ pledges["p1"].status = "cancelled"
    /\ pledges["p1"].end_date # NoDate
    /\ DateLess(pledges["p1"].end_date, today)

====
